---- MODULE Spec2Model ----
(***************************************************************************)
(* Model of the fibs platform plugins (wasi.ts, emscripten.ts, ios.ts):    *)
(* the SDK lifecycle commands `fibs wasisdk ...` and `fibs emsdk ...`, the *)
(* configurations the plugins register and their validate functions.       *)
(*                                                                         *)
(* The filesystem below the SDK root is the shared state.  Every command   *)
(* is a handler that runs from one `await` to the next in one atomic step; *)
(* the external services (util.runCmd, util.download, git.clone/update,    *)
(* Deno.rename, Deno.removeSync, log.ask) are inputs whose outcome is      *)
(* chosen nondeterministically.                                            *)
(*                                                                         *)
(* Spec runs the commands one at a time, SpecConcurrent runs one command   *)
(* of each SDK as two interleaved processes, SpecRun has the runners and   *)
(* the tool probes, SpecBuild the build hooks of the emscripten plugin.    *)
(***************************************************************************)
EXTENDS Integers, Sequences, FiniteSets, TLC

VARIABLES
    fs,          \* path -> "absent" | "partial" | "full"
    configured,  \* the plugins whose configure() has run
    commands,    \* names registered with addCommand
    registry,    \* configuration name -> ConfigDesc, filled by addConfig
    wpc,         \* position of the running `fibs wasisdk` command
    wop,         \* the operation cmdRun dispatched to
    wargs,       \* the command line the running wasisdk command was given
    wlog,        \* what the running wasisdk command did so far, in order
    wres,        \* how the wasisdk command ended: [kind, msg]
    wrename,     \* state of the promise Deno.rename returned
    wfs0,        \* the filesystem when the wasisdk command started
    epc,         \* position of the running `fibs emsdk` command
    eop,         \* the operation cmdRun dispatched to
    eargs,       \* Deno.args of the running emsdk command
    elog,        \* what the running emsdk command did so far, in order
    eres,        \* how the emsdk command ended: [kind, msg]
    eversion,    \* the version token the running emsdk install was given
    espawns,     \* the runs of the SDK's emsdk tool by the running command: [cmd, args, cwd]
    efs0,        \* the filesystem when the emsdk command started
    prev,        \* the command that ended last: [cmd, did]
    vlast,       \* the last validate call since a command ran: [name, res], and
                 \* how many there were (counted up to MaxValidate)
    rpc,         \* position of the runner call: "idle" | "spawned" | "done"
    rcall,       \* the runner call: [runner, config, target, options], where
                 \* options is the caller's object as it is now
    spawns,      \* the processes the runner call spawned, in order: [cmd, options]
    probed,      \* the last exists() call of a tool: [tool, out, result]
    builder      \* the Builder the last build() call was given, and what it added

wvars == <<wpc, wop, wargs, wlog, wres, wrename, wfs0>>

evars == <<epc, eop, eargs, elog, eres, eversion, espawns, efs0>>

cvars == <<configured, commands, registry>>

rvars == <<rpc, rcall, spawns, probed>>

ovars == <<rvars, builder>>

vars == <<fs, configured, commands, registry, wpc, wop, wargs, wlog, wres, wrename, wfs0,
          epc, eop, eargs, elog, eres, eversion, espawns, efs0, prev, vlast,
          rpc, rcall, spawns, probed, builder>>

----------------------------------------------------------------------------
(* Paths below the SDK root *)

SDKVERSION == 29

hostArch == "x86_64"

hostPlatform == "linux"

sdkDir == "sdks"

getSdkName ==
    "wasi-sdk-" \o ToString(SDKVERSION) \o ".0-" \o hostArch \o "-" \o hostPlatform

wasisdkDir == sdkDir \o "/wasisdk"

extractedDir == sdkDir \o "/" \o getSdkName

filename == getSdkName \o ".tgz"

archiveFile == sdkDir \o "/" \o filename

emsdkDir == sdkDir \o "/emsdk"

emsdkCmd == emsdkDir \o "/emsdk"

emsdkUpstream == emsdkDir \o "/upstream"

emsdkActive == emsdkDir \o "/.emscripten"

WasiPaths == {wasisdkDir, extractedDir, archiveFile}

EmsdkPaths == {emsdkDir, emsdkCmd, emsdkUpstream, emsdkActive}

Paths == {sdkDir} \cup WasiPaths \cup EmsdkPaths

Content == {"absent", "partial", "full"}

EmptyFs == [p \in Paths |-> "absent"]

dirExists(f, p) == f[p] # "absent"

fileExists(f, p) == f[p] # "absent"

\* the filesystem f with the entries of the function upd replaced
Put(f, upd) == [p \in Paths |-> IF p \in DOMAIN upd THEN upd[p] ELSE f[p]]

\* Deno.removeSync(dir, {recursive: true}): the directory and all below it
removeRecursive(f, dir, below) == [p \in Paths |-> IF p \in below THEN "absent" ELSE f[p]]

Running == [kind |-> "running", msg |-> ""]

Returned == [kind |-> "ok", msg |-> ""]

Thrown(m) == [kind |-> "error", msg |-> m]

\* whether a command that logged log deleted its SDK directory
Did(log) ==
    IF \E i \in DOMAIN log : log[i] = "info: done." THEN "deleted" ELSE "other"

MaxValidate == 2

NoValidate == [name |-> "", res |-> [valid |-> FALSE, hints |-> <<>>], calls |-> 0]

\* the record of the validate calls is kept while the filesystem is the same
KeepValidate == vlast' = IF fs' = fs THEN vlast ELSE NoValidate

NoPrev == [cmd |-> "none", did |-> "nothing"]

----------------------------------------------------------------------------
(* Configurations: addConfigs of the three plugins *)

\* a spread in which a field of the base wins over the variant's own
Spread_baseWins(base, over) ==
    [k \in DOMAIN base \cup DOMAIN over |-> IF k \in DOMAIN base THEN base[k] ELSE over[k]]

\* {...base, ...over}: object spread, the later keys replace the earlier
Spread(base, over) ==
    [k \in DOMAIN base \cup DOMAIN over |-> IF k \in DOMAIN over THEN over[k] ELSE base[k]]

\* c.addConfig(desc): the last registration of a name replaces the earlier
addConfig(reg, desc) ==
    [n \in DOMAIN reg \cup {desc.name} |-> IF n = desc.name THEN desc ELSE reg[n]]

RECURSIVE addConfigsSeq(_, _)
addConfigsSeq(reg, descs) ==
    IF descs = <<>> THEN reg
    ELSE addConfigsSeq(addConfig(reg, Head(descs)), Tail(descs))

Wasi_baseConfig ==
    [name |-> "wasi",
     platform |-> "wasi",
     runner |-> "wasi",
     toolchainFile |-> sdkDir \o "/wasisdk/share/cmake/wasi-sdk.cmake",
     buildMode |-> "debug",
     cmakeVariables |-> [WASI_SDK_PREFIX |-> sdkDir \o "/wasisdk",
                         CMAKE_EXECUTABLE_SUFFIX |-> ".wasm"],
     validate |-> "wasi"]

Wasi_addConfigs ==
    << Spread(Wasi_baseConfig, [name |-> "wasi-make-debug", generator |-> "make", buildMode |-> "debug"]),
       Spread(Wasi_baseConfig, [name |-> "wasi-make-release", generator |-> "make", buildMode |-> "release"]),
       Spread(Wasi_baseConfig, [name |-> "wasi-ninja-debug", generator |-> "ninja", buildMode |-> "debug"]),
       Spread(Wasi_baseConfig, [name |-> "wasi-ninja-release", generator |-> "ninja", buildMode |-> "release"]),
       Spread(Wasi_baseConfig, [name |-> "wasi-vscode-debug", generator |-> "ninja", buildMode |-> "debug", opener |-> "vscode"]),
       Spread(Wasi_baseConfig, [name |-> "wasi-vscode-release", generator |-> "ninja", buildMode |-> "release", opener |-> "vscode"]) >>

Emsc_baseConfig ==
    [name |-> "emsc",
     platform |-> "emscripten",
     runner |-> "emscripten",
     compilers |-> <<"clang">>,
     buildMode |-> "debug",
     toolchainFile |-> sdkDir \o "/emsdk/upstream/emscripten/cmake/Modules/Platform/Emscripten.cmake",
     validate |-> "emsc"]

Emsc_addConfigs ==
    << Spread(Emsc_baseConfig, [name |-> "emsc-make-debug", generator |-> "make", buildMode |-> "debug"]),
       Spread(Emsc_baseConfig, [name |-> "emsc-make-release", generator |-> "make", buildMode |-> "release"]),
       Spread(Emsc_baseConfig, [name |-> "emsc-ninja-debug", generator |-> "ninja", buildMode |-> "debug"]),
       Spread(Emsc_baseConfig, [name |-> "emsc-ninja-release", generator |-> "ninja", buildMode |-> "release"]),
       Spread(Emsc_baseConfig, [name |-> "emsc-vscAde-debug", generator |-> "ninja", buildMode |-> "debug", opener |-> "vscode"]),
       Spread(Emsc_baseConfig, [name |-> "emsc-vscode-release", generator |-> "ninja", buildMode |-> "release", opener |-> "vscode"]) >>

Ios_baseConfig ==
    [name |-> "ios",
     platform |-> "ios",
     buildMode |-> "debug",
     generator |-> "xcode",
     opener |-> "xcode",
     cmakeCacheVariables |-> [CMAKE_SYSTEM_NAME |-> "iOS"]]

\* the two ios registrations under one name
Ios_addConfigs_sameName ==
    << Spread(Ios_baseConfig, [name |-> "ios-xcode-debug", buildMode |-> "debug"]),
       Spread(Ios_baseConfig, [name |-> "ios-xcode-debug", buildMode |-> "release"]) >>

Ios_addConfigs ==
    << Spread(Ios_baseConfig, [name |-> "ios-xcode-debug", buildMode |-> "debug"]),
       Spread(Ios_baseConfig, [name |-> "ios-xcode-release", buildMode |-> "release"]) >>

Names(descs) == {descs[i].name : i \in DOMAIN descs}

\* every name a plugin passes to addConfig
ConfigNames == Names(Wasi_addConfigs) \cup Names(Emsc_addConfigs) \cup Names(Ios_addConfigs)

Plugins == {"wasi", "emscripten", "ios"}

\* nothing but configure() runs before every plugin is configured
Idle == wpc = "idle" /\ epc = "idle"

Wasi_configure ==
    /\ "wasi" \notin configured
    /\ configured' = configured \cup {"wasi"}
    /\ commands' = commands \cup {"wasisdk"}
    /\ registry' = addConfigsSeq(registry, Wasi_addConfigs)
    /\ UNCHANGED <<fs, wvars, evars, prev, ovars>>
    /\ KeepValidate

Emsc_configure ==
    /\ "emscripten" \notin configured
    /\ configured' = configured \cup {"emscripten"}
    /\ commands' = commands \cup {"emsdk"}
    /\ registry' = addConfigsSeq(registry, Emsc_addConfigs)
    /\ UNCHANGED <<fs, wvars, evars, prev, ovars>>
    /\ KeepValidate

Ios_configure ==
    /\ "ios" \notin configured
    /\ configured' = configured \cup {"ios"}
    /\ registry' = addConfigsSeq(registry, Ios_addConfigs)
    /\ UNCHANGED <<fs, commands, wvars, evars, prev, ovars>>
    /\ KeepValidate

----------------------------------------------------------------------------
(* validate of the wasi and the emscripten base configuration *)

Wasi_validate(f) ==
    IF ~dirExists(f, wasisdkDir)
    THEN [valid |-> FALSE, hints |-> <<"WASI SDK not installed (run 'fibs wasisdk install')">>]
    ELSE [valid |-> TRUE, hints |-> <<>>]

\* validate that looks at the SDK root instead of the SDK directory
Emsc_validate_root(f) ==
    IF ~dirExists(f, sdkDir)
    THEN [valid |-> FALSE, hints |-> <<"Emscripten SDK not installed (run 'fibs emsdk install')">>]
    ELSE [valid |-> TRUE, hints |-> <<>>]

Emsc_validate(f) ==
    IF ~dirExists(f, emsdkDir)
    THEN [valid |-> FALSE, hints |-> <<"Emscripten SDK not installed (run 'fibs emsdk install')">>]
    ELSE [valid |-> TRUE, hints |-> <<>>]

\* the configurations that carry a validate function
Validatable(reg) == {n \in DOMAIN reg : "validate" \in DOMAIN reg[n]}

\* validate that lets the build mode of the configuration decide as well
validate_byBuildMode(cfg, f) ==
    IF cfg.buildMode = "release" THEN [valid |-> TRUE, hints |-> <<>>]
    ELSE IF cfg.validate = "wasi" THEN Wasi_validate(f) ELSE Emsc_validate(f)

\* config.validate(project): the function the record carries, on the filesystem
validate(cfg, f) ==
    IF cfg.validate = "wasi" THEN Wasi_validate(f) ELSE Emsc_validate(f)

\* the host validates a configuration (before a build, or for `fibs list configs`)
Validate(n) ==
    /\ configured = Plugins
    /\ Idle
    /\ n \in Validatable(registry)
    /\ vlast' = [name |-> n, res |-> validate(registry[n], fs),
                 calls |-> IF vlast.calls < MaxValidate THEN vlast.calls + 1 ELSE MaxValidate]
    /\ UNCHANGED <<fs, cvars, wvars, evars, prev, ovars>>

----------------------------------------------------------------------------
(* The `fibs wasisdk` command (wasi.ts) *)

Wasi_CmdLines ==
    { <<"wasisdk">>, <<"wasisdk", "install">>, <<"wasisdk", "uninstall">>,
      <<"wasisdk", "update">> }

\* parseArgs: the subcommand is cmdLineArgs[1], the second word of the command line
Wasi_parseArgs(cmdLineArgs) ==
    IF Len(cmdLineArgs) < 2
    THEN [error |-> "expected a subcommand (run 'fibs help wasisdk')",
          install |-> FALSE, uninstall |-> FALSE]
    ELSE IF cmdLineArgs[2] = "install"
    THEN [error |-> "", install |-> TRUE, uninstall |-> FALSE]
    ELSE IF cmdLineArgs[2] = "uninstall"
    THEN [error |-> "", install |-> FALSE, uninstall |-> TRUE]
    ELSE [error |-> "unknown subcommand '" \o cmdLineArgs[2] \o " (run 'fibs help wasisdk')",
          install |-> FALSE, uninstall |-> FALSE]

\* the command ends (returns or throws) with what it logged and did
Wasi_end(res, log) ==
    /\ wpc' = "done"
    /\ wres' = res
    /\ wlog' = log

\* uninstall() that treats a missing SDK as an error
Wasi_uninstall_strict(answer, rm) ==
    IF dirExists(fs, wasisdkDir)
    THEN IF answer /\ rm = "ok"
         THEN /\ fs' = removeRecursive(fs, wasisdkDir, {wasisdkDir})
              /\ Wasi_end(Returned, <<"ask: yes", "info: deleting", "removeSync: wasisdk", "info: done.">>)
         ELSE IF answer
         THEN /\ fs' = fs
              /\ Wasi_end(Thrown("removeSync failed"), <<"ask: yes", "info: deleting", "removeSync: wasisdk">>)
         ELSE /\ fs' = fs
              /\ Wasi_end(Returned, <<"ask: no", "info: nothing to do.">>)
    ELSE /\ fs' = fs
         /\ Wasi_end(Thrown("WASI SDK not installed"), <<>>)

\* uninstall(project): synchronous, with the answer to log.ask and the outcome
\* of Deno.removeSync as inputs
Wasi_uninstall(answer, rm) ==
    IF dirExists(fs, wasisdkDir)
    THEN IF answer
         THEN IF rm = "ok"
              THEN /\ fs' = removeRecursive(fs, wasisdkDir, {wasisdkDir})
                   /\ Wasi_end(Returned, <<"ask: yes", "info: deleting", "removeSync: wasisdk", "info: done.">>)
              ELSE /\ fs' = fs
                   /\ Wasi_end(Thrown("removeSync failed"), <<"ask: yes", "info: deleting", "removeSync: wasisdk">>)
         ELSE /\ fs' = fs
              /\ Wasi_end(Returned, <<"ask: no", "info: nothing to do.">>)
    ELSE /\ fs' = fs
         /\ Wasi_end(Returned, <<"warn: WASI SDK not installed, nothing to do.">>)

\* a download() that takes what an earlier install left in the SDK root for an
\* installed SDK
Wasi_download_leftovers ==
    IF \E p \in WasiPaths : fs[p] # "absent"
    THEN /\ fs' = fs
         /\ Wasi_end(Thrown("WASI SDK already installed, run 'fibs wasisdk uninstall' first"), <<>>)
    ELSE /\ fs' = fs
         /\ wpc' = "probe"
         /\ wres' = Running
         /\ wlog' = <<"probe: tar">>

\* download() without its already-installed check
Wasi_download_unchecked ==
    /\ fs' = fs
    /\ wpc' = "probe"
    /\ wres' = Running
    /\ wlog' = <<"probe: tar">>

\* install(project) -> download(project), up to its first await: the
\* already-installed check, then the tar tool probe is started
Wasi_download ==
    IF dirExists(fs, wasisdkDir)
    THEN /\ fs' = fs
         /\ Wasi_end(Thrown("WASI SDK already installed, run 'fibs wasisdk uninstall' first"), <<>>)
    ELSE /\ fs' = fs
         /\ wpc' = "probe"
         /\ wres' = Running
         /\ wlog' = <<"probe: tar">>

\* cmdRun(project, cmdLineArgs), up to its first await
Wasi_cmdRunFrom(cmdLineArgs, answer, rm) ==
    /\ configured = Plugins
    /\ wpc = "idle"
    /\ wfs0' = fs
    /\ wargs' = cmdLineArgs
    /\ wrename' = "none"
    /\ LET args == Wasi_parseArgs(cmdLineArgs) IN
       IF args.error # ""
       THEN wop' = "usage" /\ fs' = fs /\ Wasi_end(Thrown(args.error), <<>>)
       ELSE IF args.install
       THEN wop' = "install" /\ Wasi_download
       ELSE IF args.uninstall
       THEN wop' = "uninstall" /\ Wasi_uninstall(answer, rm)
       ELSE wop' = "none" /\ fs' = fs /\ Wasi_end(Returned, <<>>)
    /\ UNCHANGED <<cvars, evars, prev, ovars>>
    /\ vlast' = NoValidate

\* one user types the commands: a command starts when none is running
Wasi_cmdRun(cmdLineArgs, answer, rm) == Idle /\ Wasi_cmdRunFrom(cmdLineArgs, answer, rm)

RunCmdOutcomes == {"ok", "nonzero", "throw"}

\* download() that goes on whatever the tar probe said
Wasi_probeDone_unchecked(out) ==
    /\ wpc = "probe"
    /\ wpc' = "download"
    /\ wlog' = wlog \o <<IF out = "throw" THEN "probe: tar not found" ELSE "probe: tar found",
                          "download: start">>
    /\ wres' = wres
    /\ UNCHANGED <<fs, cvars, wop, wargs, wrename, wfs0, evars, prev, ovars>>
    /\ KeepValidate

\* tarTool.exists() settles: true unless util.runCmd threw; then the download starts
Wasi_probeDone(out) ==
    /\ wpc = "probe"
    /\ IF out = "throw"
       THEN Wasi_end(Thrown("tar command not found (run 'fibs diag tools'"),
                     wlog \o <<"probe: tar not found">>)
       ELSE /\ wpc' = "download"
            /\ wlog' = wlog \o <<"probe: tar found", "download: start">>
            /\ wres' = wres
    /\ UNCHANGED <<fs, cvars, wop, wargs, wrename, wfs0, evars, prev, ovars>>
    /\ KeepValidate

\* a download that makes the SDK root anew, whatever was in it
Wasi_downloadDone_newRoot(out, left) ==
    /\ wpc = "download"
    /\ IF out = "ok"
       THEN /\ fs' = Put(EmptyFs, (sdkDir :> "full") @@ (archiveFile :> "full"))
            /\ wpc' = "tar"
            /\ wlog' = wlog \o <<"download: ok", "tar: start">>
            /\ wres' = wres
       ELSE /\ fs' = IF left THEN Put(fs, (sdkDir :> "full") @@ (archiveFile :> "partial")) ELSE fs
            /\ Wasi_end(Thrown("download failed"), wlog \o <<"download: failed">>)
    /\ UNCHANGED <<cvars, wop, wargs, wrename, wfs0, evars, prev, ovars>>
    /\ KeepValidate

\* util.download settles; on success tar is started in the SDK root
Wasi_downloadDone(out, left) ==
    /\ wpc = "download"
    /\ IF out = "ok"
       THEN /\ fs' = Put(fs, (sdkDir :> "full") @@ (archiveFile :> "full"))
            /\ wpc' = "tar"
            /\ wlog' = wlog \o <<"download: ok", "tar: start">>
            /\ wres' = wres
       ELSE /\ fs' = IF left THEN Put(fs, (sdkDir :> "full") @@ (archiveFile :> "partial")) ELSE fs
            /\ Wasi_end(Thrown("download failed"), wlog \o <<"download: failed">>)
    /\ UNCHANGED <<cvars, wop, wargs, wrename, wfs0, evars, prev, ovars>>
    /\ KeepValidate

\* util.runCmd('tar') settles; its exit code is not looked at.  Unless it threw,
\* Deno.rename is called (its promise is not awaited) and download() goes on
Wasi_tarDone(out, left) ==
    /\ wpc = "tar"
    /\ IF out = "throw"
       THEN /\ fs' = fs
            /\ wrename' = wrename
            /\ Wasi_end(Thrown("tar could not be run"), wlog \o <<"tar: threw">>)
       ELSE /\ fs' = IF out = "ok" THEN Put(fs, extractedDir :> "full")
                     ELSE IF left THEN Put(fs, extractedDir :> "partial")
                     ELSE fs
            /\ wrename' = "pending"
            /\ wpc' = "remove"
            /\ wlog' = wlog \o <<IF out = "ok" THEN "tar: ok" ELSE "tar: nonzero", "rename: start">>
            /\ wres' = wres
    /\ UNCHANGED <<cvars, wop, wargs, wfs0, evars, prev, ovars>>
    /\ KeepValidate

\* the rename Deno.rename started takes place, or fails, at any time after
\* the call: nothing waits for it
Wasi_renameSettles(out) ==
    /\ wrename = "pending"
    /\ IF out = "ok" /\ dirExists(fs, extractedDir) /\ ~dirExists(fs, wasisdkDir)
       THEN /\ fs' = Put(fs, (wasisdkDir :> fs[extractedDir]) @@ (extractedDir :> "absent"))
            /\ wrename' = "done"
            /\ wlog' = wlog \o <<"rename: ok">>
       ELSE /\ fs' = fs
            /\ wrename' = "failed"
            /\ wlog' = wlog \o <<"rename: failed">>
    /\ UNCHANGED <<cvars, wpc, wop, wargs, wres, wfs0, evars, prev, ovars>>
    /\ KeepValidate

\* Deno.removeSync of the archive, then download() and install() return
Wasi_removeArchive(out) ==
    /\ wpc = "remove"
    /\ IF out = "ok" /\ fileExists(fs, archiveFile)
       THEN /\ fs' = Put(fs, archiveFile :> "absent")
            /\ Wasi_end(Returned, wlog \o <<"removeSync: archive", "info: ok">>)
       ELSE /\ fs' = fs
            /\ Wasi_end(Thrown("removeSync failed"), wlog \o <<"removeSync: failed">>)
    /\ UNCHANGED <<cvars, wop, wargs, wrename, wfs0, evars, prev, ovars>>
    /\ KeepValidate

\* the process ends once nothing is pending any more
Wasi_exit ==
    /\ wpc = "done"
    /\ wrename # "pending"
    /\ wpc' = "idle"
    /\ prev' = [cmd |-> "wasisdk", did |-> Did(wlog)]
    /\ wop' = "none"
    /\ wargs' = <<>>
    /\ wlog' = <<>>
    /\ wres' = Running
    /\ wrename' = "none"
    /\ wfs0' = EmptyFs
    /\ UNCHANGED <<fs, cvars, evars, ovars>>
    /\ KeepValidate

----------------------------------------------------------------------------
(* The `fibs emsdk` command (emscripten.ts) *)

UNDEFINED == "<undefined>"

\* JavaScript truthiness of a string or undefined
Truthy(v) == v \notin {UNDEFINED, ""}

Emsc_CmdLines ==
    { <<"emsdk">>, <<"emsdk", "install">>, <<"emsdk", "install", "latest">>,
      <<"emsdk", "install", "3.1.50">>, <<"emsdk", "install", "">>,
      <<"emsdk", "list">>, <<"emsdk", "uninstall">>, <<"emsdk", "update">> }

\* a parseArgs that takes `update` for another word for `install`
Emsc_parseArgs_update(denoArgs) ==
    LET none == [error |-> "", install |-> FALSE, list |-> FALSE, uninstall |-> FALSE,
                 version |-> UNDEFINED]
    IN  IF Len(denoArgs) < 2
        THEN [none EXCEPT !.error = "expected a subcommand (run 'fibs help emsdk')"]
        ELSE IF denoArgs[2] \in {"install", "update"}
        THEN [none EXCEPT !.install = TRUE,
                          !.version = IF Len(denoArgs) < 3 THEN "latest" ELSE denoArgs[3]]
        ELSE IF denoArgs[2] = "list"
        THEN [none EXCEPT !.list = TRUE]
        ELSE IF denoArgs[2] = "uninstall"
        THEN [none EXCEPT !.uninstall = TRUE]
        ELSE [none EXCEPT !.error =
                  "unknown subcommand '" \o denoArgs[2] \o " (run 'fibs help emsdk')"]

\* parseArgs: Deno.args[1] is the subcommand, Deno.args[2] the version;
\* log.panic does not return
Emsc_parseArgs(denoArgs) ==
    LET none == [error |-> "", install |-> FALSE, list |-> FALSE, uninstall |-> FALSE,
                 version |-> UNDEFINED]
    IN  IF Len(denoArgs) < 2
        THEN [none EXCEPT !.error = "expected a subcommand (run 'fibs help emsdk')"]
        ELSE IF denoArgs[2] = "install"
        THEN [none EXCEPT !.install = TRUE,
                          !.version = IF Len(denoArgs) < 3 THEN "latest" ELSE denoArgs[3]]
        ELSE IF denoArgs[2] = "list"
        THEN [none EXCEPT !.list = TRUE]
        ELSE IF denoArgs[2] = "uninstall"
        THEN [none EXCEPT !.uninstall = TRUE]
        ELSE [none EXCEPT !.error =
                  "unknown subcommand '" \o denoArgs[2] \o " (run 'fibs help emsdk')"]

Emsc_end(res, log) ==
    /\ epc' = "done"
    /\ eres' = res
    /\ elog' = log
    /\ espawns' = espawns

\* emsdk() that runs the tool without looking for it first
Emsc_emsdk_unchecked(f, args, log, nextpc) ==
    /\ epc' = nextpc
    /\ eres' = Running
    /\ elog' = log \o <<"emsdk " \o args[1] \o ": start">>
    /\ espawns' = Append(espawns, [cmd |-> emsdkCmd, args |-> args, cwd |-> emsdkDir])

\* emsdk(project, args): the tool must exist, then it is run in the SDK directory;
\* f is the filesystem at the call
Emsc_emsdk(f, args, log, nextpc) ==
    IF ~fileExists(f, emsdkCmd)
    THEN Emsc_end(Thrown("emsdk tool not found at " \o emsdkCmd \o ", run 'fibs emsdk install"), log)
    ELSE /\ epc' = nextpc
         /\ eres' = Running
         /\ elog' = log \o <<"emsdk " \o args[1] \o ": start">>
         /\ espawns' = Append(espawns, [cmd |-> emsdkCmd, args |-> args, cwd |-> emsdkDir])

\* uninstall() that deletes whatever the answer is
Emsc_uninstall_unasked(answer, rm) ==
    IF dirExists(fs, emsdkDir)
    THEN /\ fs' = removeRecursive(fs, emsdkDir, EmsdkPaths)
         /\ Emsc_end(Returned, <<IF answer THEN "ask: yes" ELSE "ask: no", "info: deleting",
                                 "removeSync: emsdk", "info: done.">>)
    ELSE /\ fs' = fs
         /\ Emsc_end(Returned, <<"warn: Emscripten SDK not installed, nothing to do.">>)

\* uninstall(project)
Emsc_uninstall(answer, rm) ==
    IF dirExists(fs, emsdkDir)
    THEN IF answer
         THEN IF rm = "ok"
              THEN /\ fs' = removeRecursive(fs, emsdkDir, EmsdkPaths)
                   /\ Emsc_end(Returned, <<"ask: yes", "info: deleting", "removeSync: emsdk", "info: done.">>)
              ELSE /\ fs' = fs
                   /\ Emsc_end(Thrown("removeSync failed"), <<"ask: yes", "info: deleting", "removeSync: emsdk">>)
         ELSE /\ fs' = fs
              /\ Emsc_end(Returned, <<"ask: no", "info: nothing to do.">>)
    ELSE /\ fs' = fs
         /\ Emsc_end(Returned, <<"warn: Emscripten SDK not installed, nothing to do.">>)

\* an install that refuses to touch an emsdk directory that is already there
Emsc_install_guarded ==
    IF dirExists(fs, emsdkDir)
    THEN fs' = fs /\ Emsc_end(Thrown("Emscripten SDK already installed"), <<>>)
    ELSE /\ fs' = Put(fs, sdkDir :> "full")
         /\ epc' = "git"
         /\ eres' = Running
         /\ elog' = <<"ensureSdkDir", "git.clone">>
         /\ espawns' = espawns

\* install(project, version) -> cloneOrUpdateEmsdk(project), up to its first await:
\* the SDK root is created if absent, then the repository is synced or cloned
Emsc_install ==
    /\ fs' = Put(fs, sdkDir :> "full")
    /\ epc' = "git"
    /\ eres' = Running
    /\ elog' = <<"ensureSdkDir", IF dirExists(fs, emsdkDir) THEN "git.update" ELSE "git.clone">>
    /\ espawns' = espawns

\* cmdRun(project), up to its first await
Emsc_cmdRunFrom(denoArgs, answer, rm) ==
    /\ configured = Plugins
    /\ epc = "idle"
    /\ efs0' = fs
    /\ eargs' = denoArgs
    /\ LET args == Emsc_parseArgs(denoArgs) IN
       /\ eversion' = args.version
       /\ IF args.error # ""
          THEN eop' = "usage" /\ fs' = fs /\ Emsc_end(Thrown(args.error), <<>>)
          ELSE IF args.install /\ Truthy(args.version)
          THEN eop' = "install" /\ Emsc_install
          ELSE IF args.list
          THEN eop' = "list" /\ fs' = fs /\ Emsc_emsdk(fs, <<"list">>, <<>>, "emsdkList")
          ELSE IF args.uninstall
          THEN eop' = "uninstall" /\ Emsc_uninstall(answer, rm)
          ELSE eop' = "none" /\ fs' = fs /\ Emsc_end(Returned, <<>>)
    /\ UNCHANGED <<cvars, wvars, prev, ovars>>
    /\ vlast' = NoValidate

\* one user types the commands: a command starts when none is running
Emsc_cmdRun(denoArgs, answer, rm) == Idle /\ Emsc_cmdRunFrom(denoArgs, answer, rm)

GitOutcomes == {"ok", "false", "throw"}

\* a sync that clears the emsdk directory away when it did not succeed
Emsc_gitDone_cleanup(out, left) ==
    /\ epc = "git"
    /\ LET f == IF out = "ok" THEN Put(fs, (emsdkDir :> "full") @@ (emsdkCmd :> "full"))
                ELSE removeRecursive(fs, emsdkDir, EmsdkPaths)
           log == elog \o <<elog[2] \o ": " \o out>>
       IN  /\ fs' = f
           /\ IF out = "throw"
              THEN Emsc_end(Thrown(elog[2] \o " failed"), log)
              ELSE Emsc_emsdk(f, <<"install", "--shallow", "--disable-assertions", eversion>>, log, "emsdkInstall")
    /\ UNCHANGED <<cvars, eop, eargs, eversion, efs0, wvars, prev, ovars>>
    /\ KeepValidate

\* git.clone / git.update settles; its result is not looked at.  Unless it
\* threw, `emsdk install` is started
Emsc_gitDone(out, left) ==
    /\ epc = "git"
    /\ LET cloning == elog[2] = "git.clone"
           f == IF out = "ok" THEN Put(fs, (emsdkDir :> "full") @@ (emsdkCmd :> "full"))
                ELSE IF cloning /\ left THEN Put(fs, emsdkDir :> "partial")
                ELSE fs
           log == elog \o <<elog[2] \o ": " \o out>>
       IN  /\ fs' = f
           /\ IF out = "throw"
              THEN Emsc_end(Thrown(elog[2] \o " failed"), log)
              ELSE Emsc_emsdk(f, <<"install", "--shallow", "--disable-assertions", eversion>>, log, "emsdkInstall")
    /\ UNCHANGED <<cvars, eop, eargs, eversion, efs0, wvars, prev, ovars>>
    /\ KeepValidate

\* an install whose activate always asks for `latest`
Emsc_emsdkInstallDone_latest(out, left) ==
    /\ epc = "emsdkInstall"
    /\ LET f == IF out = "ok" THEN Put(fs, emsdkUpstream :> "full")
                ELSE IF out = "nonzero" /\ left THEN Put(fs, emsdkUpstream :> "partial")
                ELSE fs
           log == elog \o <<"emsdk install: " \o out>>
       IN  /\ fs' = f
           /\ IF out = "throw"
              THEN Emsc_end(Thrown("emsdk could not be run"), log)
              ELSE Emsc_emsdk(f, <<"activate", "--embedded", "latest">>, log, "emsdkActivate")
    /\ UNCHANGED <<cvars, eop, eargs, eversion, efs0, wvars, prev, ovars>>
    /\ KeepValidate

\* `emsdk install` exits; its exit code is not looked at.  Unless runCmd
\* threw, activate(project, version) starts `emsdk activate`
Emsc_emsdkInstallDone(out, left) ==
    /\ epc = "emsdkInstall"
    /\ LET f == IF out = "ok" THEN Put(fs, emsdkUpstream :> "full")
                ELSE IF out = "nonzero" /\ left THEN Put(fs, emsdkUpstream :> "partial")
                ELSE fs
           log == elog \o <<"emsdk install: " \o out>>
       IN  /\ fs' = f
           /\ IF out = "throw"
              THEN Emsc_end(Thrown("emsdk could not be run"), log)
              ELSE Emsc_emsdk(f, <<"activate", "--embedded", eversion>>, log, "emsdkActivate")
    /\ UNCHANGED <<cvars, eop, eargs, eversion, efs0, wvars, prev, ovars>>
    /\ KeepValidate

\* `emsdk activate` exits; its exit code is not looked at, install() returns
Emsc_activateDone(out) ==
    /\ epc = "emsdkActivate"
    /\ fs' = IF out = "ok" THEN Put(fs, emsdkActive :> "full") ELSE fs
    /\ IF out = "throw"
       THEN Emsc_end(Thrown("emsdk could not be run"), elog \o <<"emsdk activate: " \o out>>)
       ELSE Emsc_end(Returned, elog \o <<"emsdk activate: " \o out>>)
    /\ UNCHANGED <<cvars, eop, eargs, eversion, efs0, wvars, prev, ovars>>
    /\ KeepValidate

\* `emsdk list` exits, list() returns
Emsc_listDone(out) ==
    /\ epc = "emsdkList"
    /\ IF out = "throw"
       THEN Emsc_end(Thrown("emsdk could not be run"), elog \o <<"emsdk list: " \o out>>)
       ELSE Emsc_end(Returned, elog \o <<"emsdk list: " \o out>>)
    /\ UNCHANGED <<fs, cvars, eop, eargs, eversion, efs0, wvars, prev, ovars>>
    /\ KeepValidate

Emsc_exit ==
    /\ epc = "done"
    /\ epc' = "idle"
    /\ prev' = [cmd |-> "emsdk", did |-> Did(elog)]
    /\ eop' = "none"
    /\ eargs' = <<>>
    /\ elog' = <<>>
    /\ eres' = Running
    /\ eversion' = UNDEFINED
    /\ espawns' = <<>>
    /\ efs0' = EmptyFs
    /\ UNCHANGED <<fs, cvars, wvars, ovars>>
    /\ KeepValidate

----------------------------------------------------------------------------
(* The runners the plugins register with addRunner, and the tools with addTool *)

Targets == {"hello", "demo"}

ArgTokens == {"--fast", "in.txt"}

MaxArgs == 2

\* the argument lists a caller passes in RunOptions.args
ArgLists == UNION {[1..n -> ArgTokens] : n \in 0..MaxArgs}

\* RunOptions: the arguments and the other options a caller may set
RunOptions == [args : ArgLists, cwd : {UNDEFINED, "work"}, env : {UNDEFINED, "DEBUG=1"}]

\* project.distDir(configName)
distDir(configName) == "build/" \o configName \o "/dist"

HostPlatforms == {"linux", "macos", "windows"}

NoCall == [runner |-> "none", plat |-> "", config |-> "", target |-> "",
           given |-> [args |-> <<>>, cwd |-> UNDEFINED, env |-> UNDEFINED],
           options |-> [args |-> <<>>, cwd |-> UNDEFINED, env |-> UNDEFINED]]

\* the configurations the host runs with the runner of that name
RunnableBy(reg, runner) == {n \in DOMAIN reg : "runner" \in DOMAIN reg[n] /\ reg[n].runner = runner}

Runner_begin(runner, plat, config, target, options, cmd, cmdOptions) ==
    /\ configured = Plugins
    /\ rpc = "idle"
    /\ config \in RunnableBy(registry, runner)
    /\ rpc' = "spawned"
    /\ spawns' = <<[cmd |-> cmd, options |-> cmdOptions]>>
    /\ UNCHANGED <<fs, cvars, wvars, evars, prev, vlast, probed, builder>>

\* a runner that puts the artifact in front of the arguments of the caller's own object
Wasi_runnerRun_inplace(config, target, options) ==
    LET path == distDir(config) \o "/" \o target \o ".wasm"
        spawnOptions == [options EXCEPT !.args = <<path>> \o options.args]
    IN  /\ Runner_begin("wasi", hostPlatform, config, target, options, "wasmtime", spawnOptions)
        /\ rcall' = [runner |-> "wasi", plat |-> hostPlatform, config |-> config, target |-> target,
                     given |-> options, options |-> spawnOptions]

\* runnerRun(project, config, target, options) of wasi.ts, up to its await
Wasi_runnerRun(config, target, options) ==
    LET path == distDir(config) \o "/" \o target \o ".wasm"
        spawnOptions == [options EXCEPT !.args = <<path>> \o options.args]
    IN  /\ Runner_begin("wasi", hostPlatform, config, target, options, "wasmtime", spawnOptions)
        /\ rcall' = [runner |-> "wasi", plat |-> hostPlatform, config |-> config, target |-> target,
                     given |-> options, options |-> options]

emrunDir == sdkDir \o "/emsdk/upstream/emscripten"

\* a runner that hands the caller's arguments on to emrun, after the artifact
Emsc_runnerRun_passing(config, target, options) ==
    /\ Runner_begin("emscripten", hostPlatform, config, target, options, emrunDir \o "/emrun",
                    [args |-> <<"--browser", "chrome", target \o ".html">> \o options.args,
                     cwd |-> distDir(config), env |-> UNDEFINED])
    /\ rcall' = [runner |-> "emscripten", plat |-> hostPlatform, config |-> config, target |-> target,
                 given |-> options, options |-> options]

\* runnerRun(project, config, target, _options) of emscripten.ts, up to its await
Emsc_runnerRun(config, target, options) ==
    /\ Runner_begin("emscripten", hostPlatform, config, target, options, emrunDir \o "/emrun",
                    [args |-> <<"--browser", "chrome", target \o ".html">>,
                     cwd |-> distDir(config), env |-> UNDEFINED])
    /\ rcall' = [runner |-> "emscripten", plat |-> hostPlatform, config |-> config, target |-> target,
                 given |-> options, options |-> options]

\* runnerRun and emrun of the later emscripten plugin, on host platform plat
Emrun_runnerRun(plat, config, target, options) ==
    LET emrunFilename == IF plat = "windows" THEN "emrun.bat" ELSE "emrun"
        forceChromeArgs == IF plat = "macos" THEN <<"--browser", "chrome">> ELSE <<>>
    IN  /\ Runner_begin("emscripten", plat, config, target, options, emrunDir \o "/" \o emrunFilename,
                        [args |-> forceChromeArgs \o <<target \o ".html">>,
                         cwd |-> distDir(config), env |-> UNDEFINED])
        /\ rcall' = [runner |-> "emscripten/emrun", plat |-> plat, config |-> config, target |-> target,
                     given |-> options, options |-> options]

FILE_SERVER_URL == "https://deno.land/std@0.178.0/http/file_server.ts"

\* serve(options): the arguments of the file server, with the defaults of the
\* options that are left out (host, cors, dotfiles, cert, key, headers)
Serve_args(target, port) ==
    <<"run", "--no-check", "--allow-read", "--allow-net", FILE_SERVER_URL, target,
      "--host", "localhost", "-p", port, "-v", "--cors", "", "", "", "", "",
      "-H=Cache-Control: no-cache">>

\* the command that opens a URL on the host platform
Browser_opener(plat, url) ==
    IF plat = "macos" THEN [cmd |-> "open", args |-> <<url>>]
    ELSE IF plat = "linux" THEN [cmd |-> "xdg-open", args |-> <<url>>]
    ELSE [cmd |-> "cmd", args |-> <<"/c", "start", url>>]

\* runnerRun of the browser-hosted emscripten plugin, up to its first await:
\* the command that opens the URL is spawned
Browser_runnerRun(plat, config, target, options) ==
    LET url == "http://localhost:8080/" \o target \o ".html"
        opener == Browser_opener(plat, url)
    IN  /\ configured = Plugins
        /\ rpc = "idle"
        /\ config \in RunnableBy(registry, "emscripten")
        /\ rpc' = "opening"
        /\ spawns' = <<[cmd |-> opener.cmd,
                        options |-> [args |-> opener.args, cwd |-> UNDEFINED, env |-> UNDEFINED]]>>
        /\ rcall' = [runner |-> "emscripten/browser", plat |-> plat, config |-> config,
                     target |-> target, given |-> options, options |-> options]
        /\ UNCHANGED <<fs, cvars, wvars, evars, prev, vlast, probed, builder>>

\* the opener has settled: unless runCmd threw, serve() spawns the file server
\* on the dist directory of the configuration
Browser_openDone(out) ==
    /\ rpc = "opening"
    /\ IF out = "throw"
       THEN rpc' = "done" /\ spawns' = spawns
       ELSE /\ rpc' = "spawned"
            /\ spawns' = Append(spawns,
                  [cmd |-> "deno",
                   options |-> [args |-> Serve_args(distDir(rcall.config), "8080"),
                                cwd |-> UNDEFINED, env |-> UNDEFINED]])
    /\ UNCHANGED <<fs, cvars, wvars, evars, prev, vlast, rcall, probed, builder>>

\* the awaited util.runCmd of the runner settles and runnerRun is over
Runner_runCmdDone(out) ==
    /\ rpc = "spawned"
    /\ rpc' = "done"
    /\ UNCHANGED <<fs, cvars, wvars, evars, prev, vlast, rcall, spawns, probed, builder>>

\* the host goes on to the next run
Runner_return ==
    /\ rpc = "done"
    /\ rpc' = "idle"
    /\ rcall' = NoCall
    /\ spawns' = <<>>
    /\ UNCHANGED <<fs, cvars, wvars, evars, prev, vlast, probed, builder>>

Tools == {"tar", "wasmtime"}

NoProbe == [tool |-> "", cmd |-> "", args |-> <<>>, out |-> "", result |-> ""]

\* exists() of tarTool and of wasmtimeTool; out is how util.runCmd settled
Tool_exists(tool, out) ==
    /\ configured = Plugins
    /\ probed' = [tool |-> tool, cmd |-> tool, args |-> <<"--version">>, out |-> out,
                  result |-> IF out = "throw" THEN "false" ELSE "true"]
    /\ UNCHANGED <<fs, cvars, wvars, evars, prev, vlast, rpc, rcall, spawns, builder>>

\* the options a caller can start a run with
RunInputs == IF rpc = "idle" /\ configured = Plugins THEN RunOptions ELSE {}

\* the runners and the tool probes, run by the host after configure()
Hosting ==
    \/ \E c \in ConfigNames, t \in Targets, o \in RunInputs : Wasi_runnerRun(c, t, o)
    \/ \E c \in ConfigNames, t \in Targets, o \in RunInputs : Emsc_runnerRun(c, t, o)
    \/ \E pl \in HostPlatforms, c \in ConfigNames, t \in Targets, o \in RunInputs :
          Emrun_runnerRun(pl, c, t, o)
    \/ \E pl \in HostPlatforms, c \in ConfigNames, t \in Targets, o \in RunInputs :
          Browser_runnerRun(pl, c, t, o)
    \/ \E o \in RunCmdOutcomes : Browser_openDone(o)
    \/ \E o \in RunCmdOutcomes : Runner_runCmdDone(o)
    \/ Runner_return
    \/ \E tl \in Tools, o \in RunCmdOutcomes : Tool_exists(tl, o)

----------------------------------------------------------------------------
(* The build hooks of the emscripten plugin, run by the host on a Builder *)

BoolOptions == {"allowMemoryGrowth", "useEmmalloc", "useFilesystem", "useLTO", "useClosure",
                "useMinimalShellFile"}

OptionNames == {"initialMemory", "stackSize", "emscriptenShellFile"} \cup BoolOptions

\* the values an importer gives the options it sets
GivenInitialMemory == 65536

GivenStackSize == 4096

GivenShellFile == "my/shell.html"

\* import options: the names the importer has set and the values of the boolean ones
ImportOptions ==
    {i \in [set : SUBSET OptionNames, bool : [BoolOptions -> BOOLEAN]] :
        \A k \in BoolOptions : k \notin i.set => ~i.bool[k]}

\* b.selfDir()
selfDir == "imports/platforms"

AnyMode == "any"

NoBuilder == [build |-> "none", config |-> "", imports |-> [set |-> {}, bool |-> [k \in BoolOptions |-> FALSE]],
              cmakeIncludes |-> <<>>, compileOptions |-> <<>>, linkOptions |-> <<>>]

addCmakeInclude(b, file) == [b EXCEPT !.cmakeIncludes = Append(@, file)]

addLinkOptions(b, opts, buildMode) ==
    [b EXCEPT !.linkOptions = Append(@, [opts |-> opts, buildMode |-> buildMode])]

addCompileOptions(b, opts, buildMode) ==
    [b EXCEPT !.compileOptions = Append(@, [opts |-> opts, buildMode |-> buildMode])]

\* b.activeConfig().platform === 'emscripten', b.isEmscripten()
isEmscripten(reg, b) == reg[b.config].platform = "emscripten"

\* build(b) of emscripten.ts
Emsc_build(reg, b) ==
    IF isEmscripten(reg, b)
    THEN LET shellFile == IF "emscriptenShellFile" \in b.imports.set
                          THEN GivenShellFile ELSE selfDir \o "/shell.html"
         IN  addLinkOptions(addCmakeInclude(b, "emscripten.include.cmake"),
                            <<"--shell-file " \o shellFile>>, AnyMode)
    ELSE b

\* importOption(name) ?? default, for the boolean options
BoolOption(b, name, default) == IF name \in b.imports.set THEN b.imports.bool[name] ELSE default

\* options of which the LTO flags are added for every build mode
Emsc_addOptions_unscoped(b, o) ==
    LET b1 == addLinkOptions(b, <<"-sINITIAL_MEMORY=" \o ToString(o.initialMemory),
                                  "-sSTACK_SIZE=" \o ToString(o.stackSize)>>, AnyMode)
        b2 == IF o.allowMemoryGrowth THEN addLinkOptions(b1, <<"-sALLOW_MEMORY_GROWTH=1">>, AnyMode) ELSE b1
        b3 == IF o.useEmmalloc THEN addLinkOptions(b2, <<"-sMALLOC='emmalloc'">>, AnyMode) ELSE b2
        b4 == IF ~o.useFilesystem THEN addLinkOptions(b3, <<"-sNO_FILESYSTEM=1">>, AnyMode) ELSE b3
        b5 == IF o.useLTO
              THEN addLinkOptions(addCompileOptions(b4, <<"-flto">>, AnyMode), <<"-flto">>, AnyMode)
              ELSE b4
        b6 == IF o.useClosure THEN addLinkOptions(b5, <<"--closure 1">>, "release") ELSE b5
    IN  IF o.useMinimalShellFile
        THEN addLinkOptions(b6, <<"--shell-file=" \o selfDir \o "/shell.html">>, AnyMode)
        ELSE b6

\* the link and compile options of the later build(b), from the resolved options
Emsc_addOptions(b, o) ==
    LET b1 == addLinkOptions(b, <<"-sINITIAL_MEMORY=" \o ToString(o.initialMemory),
                                  "-sSTACK_SIZE=" \o ToString(o.stackSize)>>, AnyMode)
        b2 == IF o.allowMemoryGrowth THEN addLinkOptions(b1, <<"-sALLOW_MEMORY_GROWTH=1">>, AnyMode) ELSE b1
        b3 == IF o.useEmmalloc THEN addLinkOptions(b2, <<"-sMALLOC='emmalloc'">>, AnyMode) ELSE b2
        b4 == IF ~o.useFilesystem THEN addLinkOptions(b3, <<"-sNO_FILESYSTEM=1">>, AnyMode) ELSE b3
        b5 == IF o.useLTO
              THEN addLinkOptions(addCompileOptions(b4, <<"-flto">>, "release"), <<"-flto">>, "release")
              ELSE b4
        b6 == IF o.useClosure THEN addLinkOptions(b5, <<"--closure 1">>, "release") ELSE b5
    IN  IF o.useMinimalShellFile
        THEN addLinkOptions(b6, <<"--shell-file=" \o selfDir \o "/shell.html">>, AnyMode)
        ELSE b6

\* a build(b) whose memory growth is off unless the importer asks for it
Emsc_buildOptions_nogrowth(reg, b) ==
    IF isEmscripten(reg, b)
    THEN Emsc_addOptions(addCmakeInclude(b, "emscripten.include.cmake"),
            [initialMemory |-> IF "initialMemory" \in b.imports.set
                               THEN GivenInitialMemory ELSE 32 * 1024 * 1024,
             allowMemoryGrowth |-> BoolOption(b, "allowMemoryGrowth", FALSE),
             stackSize |-> IF "stackSize" \in b.imports.set THEN GivenStackSize ELSE 512 * 1024,
             useEmmalloc |-> BoolOption(b, "useEmmalloc", TRUE),
             useFilesystem |-> BoolOption(b, "useFilesystem", FALSE),
             useLTO |-> BoolOption(b, "useLTO", TRUE),
             useClosure |-> BoolOption(b, "useClosure", TRUE),
             useMinimalShellFile |-> BoolOption(b, "useMinimalShellFile", TRUE)])
    ELSE b

\* build(b) of the later emscripten plugin, with its import options and their defaults
Emsc_buildOptions(reg, b) ==
    IF isEmscripten(reg, b)
    THEN Emsc_addOptions(addCmakeInclude(b, "emscripten.include.cmake"),
            [initialMemory |-> IF "initialMemory" \in b.imports.set
                               THEN GivenInitialMemory ELSE 32 * 1024 * 1024,
             allowMemoryGrowth |-> BoolOption(b, "allowMemoryGrowth", TRUE),
             stackSize |-> IF "stackSize" \in b.imports.set THEN GivenStackSize ELSE 512 * 1024,
             useEmmalloc |-> BoolOption(b, "useEmmalloc", TRUE),
             useFilesystem |-> BoolOption(b, "useFilesystem", FALSE),
             useLTO |-> BoolOption(b, "useLTO", TRUE),
             useClosure |-> BoolOption(b, "useClosure", TRUE),
             useMinimalShellFile |-> BoolOption(b, "useMinimalShellFile", TRUE)])
    ELSE b

\* the configurations a build is set up for, one of each platform and build mode
ActiveConfigs == {"wasi-make-debug", "emsc-make-release", "emsc-ninja-debug", "ios-xcode-debug"}

\* the import options the host can hand a fresh Builder
BuildInputs == IF builder = NoBuilder /\ configured = Plugins THEN ImportOptions ELSE {}

\* the host calls build() of the plugin on a fresh Builder
Builder_new(config, imports) ==
    [NoBuilder EXCEPT !.config = config, !.imports = imports]

Build_shellFile(config, imports) ==
    /\ configured = Plugins
    /\ builder = NoBuilder
    /\ config \in DOMAIN registry
    /\ builder' = [Emsc_build(registry, Builder_new(config, imports)) EXCEPT !.build = "shellFile"]
    /\ UNCHANGED <<fs, cvars, wvars, evars, prev, vlast, rvars>>

Build_options(config, imports) ==
    /\ configured = Plugins
    /\ builder = NoBuilder
    /\ config \in DOMAIN registry
    /\ builder' = [Emsc_buildOptions(registry, Builder_new(config, imports)) EXCEPT !.build = "options"]
    /\ UNCHANGED <<fs, cvars, wvars, evars, prev, vlast, rvars>>

\* the host drops the Builder
Build_over ==
    /\ builder # NoBuilder
    /\ builder' = NoBuilder
    /\ UNCHANGED <<fs, cvars, wvars, evars, prev, vlast, rvars>>

----------------------------------------------------------------------------
(* The specification: one command at a time, as one user types them *)

Init ==
    /\ fs = EmptyFs
    /\ configured = {}
    /\ commands = {}
    /\ registry = <<>>
    /\ wpc = "idle" /\ wop = "none" /\ wargs = <<>> /\ wlog = <<>> /\ wres = Running
    /\ wrename = "none" /\ wfs0 = EmptyFs
    /\ epc = "idle" /\ eop = "none" /\ eargs = <<>> /\ elog = <<>> /\ eres = Running
    /\ eversion = UNDEFINED /\ espawns = <<>> /\ efs0 = EmptyFs
    /\ prev = NoPrev
    /\ vlast = NoValidate
    /\ rpc = "idle" /\ rcall = NoCall /\ spawns = <<>> /\ probed = NoProbe
    /\ builder = NoBuilder

RmOutcomes == {"ok", "throw"}

\* configure() and the steps of the two commands
Lifecycle ==
    \/ Wasi_configure
    \/ Emsc_configure
    \/ Ios_configure
    \/ \E a \in Wasi_CmdLines, ans \in BOOLEAN, rm \in RmOutcomes : Wasi_cmdRun(a, ans, rm)
    \/ \E o \in RunCmdOutcomes : Wasi_probeDone(o)
    \/ \E o \in {"ok", "throw"}, left \in BOOLEAN : Wasi_downloadDone(o, left)
    \/ \E o \in RunCmdOutcomes, left \in BOOLEAN : Wasi_tarDone(o, left)
    \/ \E o \in {"ok", "throw"} : Wasi_renameSettles(o)
    \/ \E o \in RmOutcomes : Wasi_removeArchive(o)
    \/ Wasi_exit
    \/ \E a \in Emsc_CmdLines, ans \in BOOLEAN, rm \in RmOutcomes : Emsc_cmdRun(a, ans, rm)
    \/ \E o \in GitOutcomes, left \in BOOLEAN : Emsc_gitDone(o, left)
    \/ \E o \in RunCmdOutcomes, left \in BOOLEAN : Emsc_emsdkInstallDone(o, left)
    \/ \E o \in RunCmdOutcomes : Emsc_activateDone(o)
    \/ \E o \in RunCmdOutcomes : Emsc_listDone(o)
    \/ Emsc_exit

Next ==
    \/ \E n \in ConfigNames : Validate(n)
    \/ Lifecycle

Spec == Init /\ [][Next]_vars

\* the SDK roots two commands can find: each SDK as a successful install left
\* it, or not there
StartFs ==
    {Put(EmptyFs, w @@ e) :
        w \in {(sdkDir :> "absent"), (sdkDir :> "full") @@ (wasisdkDir :> "full")},
        e \in {(sdkDir :> "absent"),
               (sdkDir :> "full") @@ (emsdkDir :> "full") @@ (emsdkCmd :> "full")
                  @@ (emsdkUpstream :> "full") @@ (emsdkActive :> "full")}}

\* the plugins are configured and no command is running
InitConcurrent ==
    /\ fs \in StartFs
    /\ configured = Plugins
    /\ commands = {"wasisdk", "emsdk"}
    /\ registry = addConfigsSeq(addConfigsSeq(addConfigsSeq(<<>>, Wasi_addConfigs), Emsc_addConfigs),
                                Ios_addConfigs)
    /\ wpc = "idle" /\ wop = "none" /\ wargs = <<>> /\ wlog = <<>> /\ wres = Running
    /\ wrename = "none" /\ wfs0 = EmptyFs
    /\ epc = "idle" /\ eop = "none" /\ eargs = <<>> /\ elog = <<>> /\ eres = Running
    /\ eversion = UNDEFINED /\ espawns = <<>> /\ efs0 = EmptyFs
    /\ prev = NoPrev
    /\ vlast = NoValidate
    /\ rpc = "idle" /\ rcall = NoCall /\ spawns = <<>> /\ probed = NoProbe
    /\ builder = NoBuilder

\* one wasisdk command and one emsdk command run as two processes on the same
\* SDK root, their steps interleaved in any order
NextConcurrent ==
    \/ \E a \in Wasi_CmdLines, ans \in BOOLEAN, rm \in RmOutcomes : Wasi_cmdRunFrom(a, ans, rm)
    \/ \E o \in RunCmdOutcomes : Wasi_probeDone(o)
    \/ \E o \in {"ok", "throw"}, left \in BOOLEAN : Wasi_downloadDone(o, left)
    \/ \E o \in RunCmdOutcomes, left \in BOOLEAN : Wasi_tarDone(o, left)
    \/ \E o \in {"ok", "throw"} : Wasi_renameSettles(o)
    \/ \E o \in RmOutcomes : Wasi_removeArchive(o)
    \/ \E a \in Emsc_CmdLines, ans \in BOOLEAN, rm \in RmOutcomes : Emsc_cmdRunFrom(a, ans, rm)
    \/ \E o \in GitOutcomes, left \in BOOLEAN : Emsc_gitDone(o, left)
    \/ \E o \in RunCmdOutcomes, left \in BOOLEAN : Emsc_emsdkInstallDone(o, left)
    \/ \E o \in RunCmdOutcomes : Emsc_activateDone(o)
    \/ \E o \in RunCmdOutcomes : Emsc_listDone(o)

SpecConcurrent == InitConcurrent /\ [][NextConcurrent]_vars

\* the host configures the plugins, then runs targets and probes tools
NextRun ==
    \/ Wasi_configure
    \/ Emsc_configure
    \/ Ios_configure
    \/ Hosting

SpecRun == Init /\ [][NextRun]_vars

\* the host configures the plugins, then lets them set up a build
NextBuild ==
    \/ Wasi_configure
    \/ Emsc_configure
    \/ Ios_configure
    \/ \E c \in ActiveConfigs, i \in BuildInputs : Build_shellFile(c, i)
    \/ \E c \in ActiveConfigs, i \in BuildInputs : Build_options(c, i)
    \/ Build_over

SpecBuild == Init /\ [][NextBuild]_vars

----------------------------------------------------------------------------
(* Properties *)

In(log, e) == \E i \in DOMAIN log : log[i] = e

Count(log, e) == Cardinality({i \in DOMAIN log : log[i] = e})

\* e comes before every d in log
Before(log, e, d) ==
    \A i \in DOMAIN log : log[i] = d => \E j \in 1..(i - 1) : log[j] = e

AlreadyInstalledMsg == "WASI SDK already installed, run 'fibs " \o "wasisdk uninstall" \o "' first"

\* C1: `wasisdk install` on an existing <sdkRoot>/wasisdk fails with the
\* already-installed error naming 'fibs wasisdk uninstall'; in that run nothing
\* is probed, downloaded, extracted, renamed or removed and the filesystem stays
\* as it was
C1_InstallOnInstalledFails ==
    (wop = "install" /\ dirExists(wfs0, wasisdkDir)) =>
        /\ wpc = "done"
        /\ wres = Thrown(AlreadyInstalledMsg)
        /\ wlog = <<>>
        /\ wrename = "none"
        /\ fs = wfs0

C1_Witness ==
    wop = "install" /\ dirExists(wfs0, wasisdkDir) /\ wpc = "done"

WasiConfigs == Names(Wasi_addConfigs)

\* C2: when the WASI install returns without error, with the download and tar
\* succeeded and no rename failure, <sdkRoot>/wasisdk exists, the extracted
\* directory and the archive are gone, and the wasi configurations validate
C2_InstallPostState ==
    (wop = "install" /\ wpc = "done" /\ wres = Returned
       /\ In(wlog, "download: ok") /\ In(wlog, "tar: ok") /\ wrename # "failed") =>
        /\ dirExists(fs, wasisdkDir)
        /\ ~dirExists(fs, extractedDir)
        /\ ~fileExists(fs, archiveFile)
        /\ \A n \in WasiConfigs : validate(registry[n], fs).valid

WasiWarnOnly ==
    /\ wres = Returned
    /\ wlog = <<"warn: WASI SDK not installed, nothing to do.">>
    /\ fs = wfs0

EmscWarnOnly ==
    /\ eres = Returned
    /\ elog = <<"warn: Emscripten SDK not installed, nothing to do.">>
    /\ fs = efs0

\* C3: an uninstall that follows an uninstall which deleted the SDK directory,
\* and any uninstall that starts without the SDK directory, raises no error,
\* asks nothing, deletes nothing and only warns that there is nothing to do
C3_UninstallIdempotent ==
    /\ (wpc = "done" /\ wop = "uninstall"
          /\ (prev = [cmd |-> "wasisdk", did |-> "deleted"] \/ ~dirExists(wfs0, wasisdkDir)))
       => WasiWarnOnly
    /\ (epc = "done" /\ eop = "uninstall"
          /\ (prev = [cmd |-> "emsdk", did |-> "deleted"] \/ ~dirExists(efs0, emsdkDir)))
       => EmscWarnOnly

C3_Witness ==
    wpc = "done" /\ wop = "uninstall" /\ prev = [cmd |-> "wasisdk", did |-> "deleted"]

\* the filesystem g is f without the directory dir and what is below it
Deleted(f, g, below) ==
    \A p \in Paths : g[p] = IF p \in below THEN "absent" ELSE f[p]

UninstallGated(log, res, f0, f, dir, below, rmEvent) ==
    /\ Count(log, "ask: yes") + Count(log, "ask: no") = 1
    /\ In(log, rmEvent) <=> In(log, "ask: yes")
    /\ In(log, "ask: no") => f = f0 /\ dirExists(f, dir) /\ res = Returned
    /\ (In(log, "ask: yes") /\ res = Returned) => Deleted(f0, f, below)
    /\ ~dirExists(f, dir) => In(log, "ask: yes")

\* C4: an uninstall on an existing SDK directory asks exactly once; the
\* recursive delete is made if and only if the answer is yes, and removes the
\* SDK directory and nothing else; on a refusal the filesystem is unchanged
\* and the SDK stays installed
C4_UninstallAsksFirst ==
    /\ (wpc = "done" /\ wop = "uninstall" /\ dirExists(wfs0, wasisdkDir)) =>
           UninstallGated(wlog, wres, wfs0, fs, wasisdkDir, {wasisdkDir}, "removeSync: wasisdk")
    /\ (epc = "done" /\ eop = "uninstall" /\ dirExists(efs0, emsdkDir)) =>
           UninstallGated(elog, eres, efs0, fs, emsdkDir, EmsdkPaths, "removeSync: emsdk")

C4_Witness ==
    epc = "done" /\ eop = "uninstall" /\ In(elog, "ask: no") /\ dirExists(fs, emsdkUpstream)

Variants == {"make", "ninja", "vscode", "vscAde"}

Modes == {"debug", "release"}

HasPrefix(n, prefix) == \E v \in Variants, m \in Modes : n = prefix \o "-" \o v \o "-" \o m

\* what validate of the configuration named n has to return on the filesystem f
ExpectedValidate(n, f) ==
    LET wasi == HasPrefix(n, "wasi")
        dir == IF wasi THEN sdkDir \o "/wasisdk" ELSE sdkDir \o "/emsdk"
        title == IF wasi THEN "WASI" ELSE "Emscripten"
        cmd == IF wasi THEN "wasisdk" ELSE "emsdk"
    IN  IF f[dir] # "absent"
        THEN [valid |-> TRUE, hints |-> <<>>]
        ELSE [valid |-> FALSE,
              hints |-> <<title \o " SDK not installed (run 'fibs " \o cmd \o " install')">>]

\* C5: validate of every wasi-* and emsc-* configuration returns
\* {valid: true, hints: []} exactly when the SDK's directory exists, and
\* otherwise {valid: false} with the one hint naming `fibs <command> install`
C5_ValidateAsData ==
    /\ \A n \in Validatable(registry) :
          /\ HasPrefix(n, "wasi") \/ HasPrefix(n, "emsc")
          /\ validate(registry[n], fs) = ExpectedValidate(n, fs)
    /\ vlast.name # "" => vlast.res = ExpectedValidate(vlast.name, fs)
    /\ configured = Plugins => {"wasisdk", "emsdk"} \subseteq commands

C5_Witness ==
    /\ vlast.name = "emsc-make-release"
    /\ ~vlast.res.valid
    /\ dirExists(fs, wasisdkDir)

DerivedFrom(cfg, base) ==
    \A k \in DOMAIN base \ {"name", "generator", "buildMode", "opener"} :
        k \in DOMAIN cfg /\ cfg[k] = base[k]

SameBase(a, b) ==
    \/ DerivedFrom(registry[a], Wasi_baseConfig) /\ DerivedFrom(registry[b], Wasi_baseConfig)
    \/ DerivedFrom(registry[a], Emsc_baseConfig) /\ DerivedFrom(registry[b], Emsc_baseConfig)

\* C6: a validate call changes nothing but the record of the call, and while
\* the filesystem is the same it returns the same for the same configuration
\* and for every configuration derived from the same base
C6_ValidatePure ==
    [][(vlast' # vlast /\ vlast'.name # "") =>
          /\ UNCHANGED <<fs, cvars, wvars, evars, prev>>
          /\ (vlast.name # "" /\ SameBase(vlast.name, vlast'.name)) => vlast'.res = vlast.res]_vars

C6_Witness ==
    vlast.calls = MaxValidate /\ vlast.res.valid /\ prev.cmd = "emsdk"

ExtractionDone == {"tar: ok", "tar: nonzero"}

RenameDone == {"rename: ok", "rename: failed"}

\* C7: in a WASI install the download has completed before tar starts, tar has
\* completed before the rename starts, and the rename has completed before the
\* archive is removed; no step runs twice, and a successful run has them all
C7_StepOrder ==
    wop = "install" =>
        /\ Before(wlog, "download: ok", "tar: start")
        /\ \A i \in DOMAIN wlog : wlog[i] = "rename: start" =>
               \E j \in 1..(i - 1) : wlog[j] \in ExtractionDone
        /\ \A i \in DOMAIN wlog : wlog[i] \in {"removeSync: archive", "removeSync: failed"} =>
               \E j \in 1..(i - 1) : wlog[j] \in RenameDone
        /\ \A i, j \in DOMAIN wlog : wlog[i] = wlog[j] => i = j
        /\ (wpc = "done" /\ wres = Returned) =>
               \A e \in {"download: ok", "tar: start", "rename: start", "removeSync: archive"} :
                   In(wlog, e)

StepFailed == {"probe: tar not found", "download: failed", "tar: threw", "tar: nonzero",
               "rename: failed", "removeSync: failed"}

StepStarted == {"download: start", "tar: start", "rename: start", "removeSync: archive",
                "removeSync: failed"}

\* C8: when a step of the WASI install fails, no later step of that install is
\* started and the install ends with the error
C8_AbortOnFirstFailure ==
    wop = "install" =>
        \A i \in DOMAIN wlog : wlog[i] \in StepFailed =>
            /\ \A j \in (i + 1)..Len(wlog) : wlog[j] \notin StepStarted
            /\ wpc = "done" => wres.kind = "error"

\* C9: with the SDK absent and tar not found, the WASI install fails with the
\* error naming tar and `fibs diag tools`, and downloads, extracts, renames and
\* removes nothing; on an installed SDK the already-installed error comes
\* first and tar is not probed
C9_MissingTar ==
    /\ (wop = "install" /\ In(wlog, "probe: tar not found")) =>
           /\ ~dirExists(wfs0, wasisdkDir)
           /\ wpc = "done"
           /\ wres = Thrown("tar" \o " command not found (run '" \o "fibs diag tools" \o "'")
           /\ wlog = <<"probe: tar", "probe: tar not found">>
           /\ wrename = "none"
           /\ fs = wfs0
    /\ (wop = "install" /\ dirExists(wfs0, wasisdkDir)) =>
           /\ wres = Thrown(AlreadyInstalledMsg)
           /\ ~In(wlog, "probe: tar")

C9_Witness ==
    wop = "install" /\ In(wlog, "probe: tar not found") /\ fileExists(fs, archiveFile)

\* C10: a nonzero exit code of `emsdk install` ends the Emscripten install with
\* an error before `emsdk activate` is started, and a nonzero exit code of
\* `emsdk activate` makes the install fail
C10_ExitCodePropagates ==
    eop = "install" =>
        /\ In(elog, "emsdk install: nonzero") =>
               /\ ~In(elog, "emsdk activate: start")
               /\ epc = "done" /\ eres.kind = "error"
        /\ In(elog, "emsdk activate: nonzero") => eres.kind = "error"

EmsdkToolMissingMsg == "emsdk tool not found at " \o emsdkCmd \o ", run 'fibs emsdk install"

\* C11 as stated: `emsdk install` on an existing <sdkRoot>/emsdk fails with an
\* error, syncs nothing, runs neither `emsdk install` nor `emsdk activate` and
\* leaves the filesystem as it was
C11_InstallOnInstalledFails ==
    (eop = "install" /\ dirExists(efs0, emsdkDir)) =>
        /\ epc = "done"
        /\ eres.kind = "error"
        /\ elog = <<>>
        /\ fs = efs0

\* C11: `emsdk install` on an existing <sdkRoot>/emsdk is not refused: it makes
\* sure of the SDK root, force-syncs the existing clone (it never clones), and,
\* unless the sync threw or the emsdk tool is missing, goes on to run
\* `emsdk install`
C11_InstallOnInstalledSyncs ==
    (eop = "install" /\ dirExists(efs0, emsdkDir)) =>
        /\ Len(elog) >= 2 /\ elog[1] = "ensureSdkDir" /\ elog[2] = "git.update"
        /\ ~In(elog, "git.clone")
        /\ epc = "done" =>
              \/ In(elog, "git.update: throw")
              \/ eres = Thrown(EmsdkToolMissingMsg)
              \/ In(elog, "emsdk install: start")

C11_Witness ==
    /\ eop = "install" /\ dirExists(efs0, emsdkDir)
    /\ epc = "done" /\ eres = Returned /\ In(elog, "emsdk activate: ok")

\* the subcommand token of a command line, "" when there is none
Token(args) == IF Len(args) >= 2 THEN args[2] ELSE ""

\* C12 as stated: an `update` token is dispatched to an update operation: it
\* is not rejected as a usage error, it fails without cloning when
\* <sdkRoot>/emsdk is absent and force-syncs the clone when it is there
C12_UpdateOffered ==
    (Token(eargs) = "update" /\ epc = "done") =>
        /\ eop # "usage"
        /\ ~dirExists(efs0, emsdkDir) => (eres.kind = "error" /\ ~In(elog, "git.clone"))
        /\ dirExists(efs0, emsdkDir) => In(elog, "git.update")

\* C12: the emsdk command has no update operation: an `update` token is
\* rejected as an unknown subcommand, with the usage error that names
\* 'fibs help emsdk', before anything is synced, cloned or written; the
\* forced sync of an existing clone is done by install only, and a clone by an
\* install that found no emsdk directory
C12_UpdateRejected ==
    /\ Token(eargs) = "update" =>
          /\ epc = "done" /\ eop = "usage"
          /\ eres = Thrown("unknown subcommand 'update (run 'fibs help emsdk')")
          /\ elog = <<>>
          /\ fs = efs0
    /\ In(elog, "git.update") => (eop = "install" /\ dirExists(efs0, emsdkDir))
    /\ In(elog, "git.clone") => (eop = "install" /\ ~dirExists(efs0, emsdkDir))

C12_Witness ==
    Token(eargs) = "update" /\ epc = "done" /\ dirExists(fs, emsdkDir)

WasiTokens == {"install", "uninstall"}

EmscTokens == {"install", "list", "uninstall"}

\* C13: for both commands a missing or unknown subcommand ends in a usage
\* error that refers to 'fibs help <command>', with no operation started and
\* the filesystem untouched, and an accepted subcommand is dispatched to the
\* operation of that name
C13_Dispatch ==
    /\ (wpc # "idle" /\ Token(wargs) \notin WasiTokens) =>
          /\ wpc = "done" /\ wop = "usage" /\ wlog = <<>> /\ fs = wfs0
          /\ wres \in {Thrown("expected a subcommand (run 'fibs help wasisdk')"),
                       Thrown("unknown subcommand '" \o Token(wargs) \o " (run 'fibs help wasisdk')")}
    /\ (wpc # "idle" /\ Token(wargs) \in WasiTokens) => wop = Token(wargs)
    /\ (epc # "idle" /\ Token(eargs) \notin EmscTokens) =>
          /\ epc = "done" /\ eop = "usage" /\ elog = <<>> /\ fs = efs0
          /\ eres \in {Thrown("expected a subcommand (run 'fibs help emsdk')"),
                       Thrown("unknown subcommand '" \o Token(eargs) \o " (run 'fibs help emsdk')")}
    /\ (epc # "idle" /\ Token(eargs) \in EmscTokens) => eop = Token(eargs)

\* C14: a call of the wasi runner spawns `wasmtime` exactly once, with the
\* artifact path <distDir>/<target>.wasm as the first argument followed by the
\* caller's arguments in their order, with the caller's other options
\* (working directory, environment) as given, and the caller's options object
\* is the same after the call as before
C14_WasiRunnerPrepends ==
    (rpc # "idle" /\ rcall.runner = "wasi") =>
        /\ Len(spawns) = 1
        /\ spawns[1].cmd = "wasmtime"
        /\ spawns[1].options.args = <<distDir(rcall.config) \o "/" \o rcall.target \o ".wasm">> \o rcall.given.args
        /\ spawns[1].options.cwd = rcall.given.cwd
        /\ spawns[1].options.env = rcall.given.env
        /\ rcall.options = rcall.given

C14_Witness ==
    /\ rpc = "done" /\ rcall.runner = "wasi"
    /\ Len(rcall.given.args) = MaxArgs /\ rcall.given.args[1] # rcall.given.args[2]
    /\ rcall.given.cwd = "work" /\ rcall.given.env = "DEBUG=1"

EmscRunners == {"emscripten", "emscripten/emrun"}

\* the last n elements of a sequence
Tail_(seq, n) == SubSeq(seq, Len(seq) - n + 1, Len(seq))

\* C15 as stated: the emscripten runner launches emrun from the dist directory
\* of the configuration with <target>.html and, after it, the caller's
\* arguments in their order
C15_EmrunPassesArgs ==
    (rpc # "idle" /\ rcall.runner \in EmscRunners) =>
        /\ Len(spawns) = 1
        /\ spawns[1].options.cwd = distDir(rcall.config)
        /\ Len(spawns[1].options.args) >= 1 + Len(rcall.given.args)
        /\ Tail_(spawns[1].options.args, 1 + Len(rcall.given.args))
              = <<rcall.target \o ".html">> \o rcall.given.args

\* C15: the emscripten runner launches emrun (emrun.bat on a Windows host of
\* the later plugin) of the SDK once, from the dist directory of the
\* configuration, with the artifact file name <target>.html as the last
\* argument, preceded by `--browser chrome` (in the later plugin on macOS
\* only); the caller's run options are ignored: none of its arguments, working
\* directory or environment is handed on
C15_EmrunIgnoresOptions ==
    (rpc # "idle" /\ rcall.runner \in EmscRunners) =>
        /\ Len(spawns) = 1
        /\ spawns[1].cmd = emrunDir \o (IF rcall.runner = "emscripten/emrun" /\ rcall.plat = "windows"
                                        THEN "/emrun.bat" ELSE "/emrun")
        /\ spawns[1].options.cwd = distDir(rcall.config)
        /\ spawns[1].options.env = UNDEFINED
        /\ spawns[1].options.args =
              (IF rcall.runner = "emscripten" \/ rcall.plat = "macos"
               THEN <<"--browser", "chrome">> ELSE <<>>) \o <<rcall.target \o ".html">>
        /\ rcall.options = rcall.given

C15_Witness ==
    /\ rpc = "done" /\ rcall.runner = "emscripten"
    /\ Len(rcall.given.args) = MaxArgs /\ rcall.given.cwd = "work"

\* C16: exists() of tar and of wasmtime answers true when the version probe
\* ran successfully and false, without throwing, for every failure of the
\* probe process
C16_ProbeFalseOnFailure ==
    probed.tool # "" =>
        /\ probed.out = "ok" => probed.result = "true"
        /\ probed.out # "ok" => probed.result = "false"

\* C17 as stated, its clause on failed installs: an install that fails, having
\* started with the normalized directory absent, leaves it absent
C17_FailedInstallLeavesAbsent ==
    /\ (wop = "install" /\ wpc = "done" /\ wres.kind = "error" /\ ~dirExists(wfs0, wasisdkDir))
          => ~dirExists(fs, wasisdkDir)
    /\ (eop = "install" /\ epc = "done" /\ eres.kind = "error" /\ ~dirExists(efs0, emsdkDir))
          => ~dirExists(fs, emsdkDir)

\* C17: for both SDKs the normalized directory comes into existence only in a
\* step of an install and goes away only in an uninstall that was answered yes
\* and succeeded, so no failure makes an installed SDK absent; an install that
\* fails from Absent is sure to leave the directory absent only when it failed
\* before the step that creates it, which for WASI is the rename (for
\* Emscripten it is the clone, the first step of install)
C17_LifecycleTransitions ==
    [][/\ (~dirExists(fs, wasisdkDir) /\ dirExists(fs', wasisdkDir)) =>
             (wop = "install" /\ wop' = "install" /\ In(wlog, "rename: start"))
       /\ (dirExists(fs, wasisdkDir) /\ ~dirExists(fs', wasisdkDir)) =>
             (wop' = "uninstall" /\ In(wlog', "ask: yes") /\ wres' = Returned)
       /\ (~dirExists(fs, emsdkDir) /\ dirExists(fs', emsdkDir)) =>
             (eop = "install" /\ eop' = "install" /\ In(elog, "git.clone"))
       /\ (dirExists(fs, emsdkDir) /\ ~dirExists(fs', emsdkDir)) =>
             (eop' = "uninstall" /\ In(elog', "ask: yes") /\ eres' = Returned)
       /\ (wop' = "install" /\ wpc' = "done" /\ wres'.kind = "error"
              /\ ~dirExists(wfs0', wasisdkDir) /\ ~In(wlog', "rename: start"))
             => ~dirExists(fs', wasisdkDir)]_vars

\* an Emscripten install that failed after its clone and left the SDK installed
C17_Witness ==
    /\ eop = "install" /\ epc = "done" /\ eres.kind = "error"
    /\ ~dirExists(efs0, emsdkDir) /\ dirExists(fs, emsdkDir)
    /\ In(elog, "git.clone: ok")

\* the fields a variant may set itself
Overridable == {"name", "generator", "buildMode", "opener"}

\* the base descriptor a registered name was derived from
BaseOfName(n) ==
    IF HasPrefix(n, "wasi") THEN Wasi_baseConfig
    ELSE IF HasPrefix(n, "emsc") THEN Emsc_baseConfig
    ELSE Ios_baseConfig

\* C18: every registered configuration has, for each field it does not set
\* itself (platform, runner, toolchain file, compilers, cmake variables,
\* validate), the value of its base descriptor, and its own value for name,
\* generator, buildMode and opener; no variant shows an override of a variant
\* registered before it
C18_Inheritance ==
    \A n \in DOMAIN registry :
        LET cfg == registry[n]
            base == BaseOfName(n)
        IN  /\ cfg.name = n
            /\ \A k \in DOMAIN base \ Overridable : k \in DOMAIN cfg /\ cfg[k] = base[k]
            /\ DOMAIN cfg \subseteq DOMAIN base \cup Overridable
            /\ \A p \in {"wasi", "emsc"}, v \in Variants, m \in Modes :
                  n = p \o "-" \o v \o "-" \o m =>
                      /\ cfg.buildMode = m
                      /\ cfg.generator = (IF v = "make" THEN "make" ELSE "ninja")
                      /\ IF v \in {"make", "ninja"}
                         THEN "opener" \notin DOMAIN cfg
                         ELSE cfg.opener = "vscode"
            /\ \A m \in Modes :
                  n = "ios-xcode-" \o m =>
                      /\ cfg.buildMode = m
                      /\ cfg.generator = Ios_baseConfig.generator
                      /\ cfg.opener = Ios_baseConfig.opener

C18_Witness ==
    /\ configured = Plugins
    /\ DOMAIN registry = ConfigNames
    /\ registry["wasi-ninja-release"].buildMode = "release"
    /\ registry["emsc-vscode-release"].opener = "vscode"
    /\ registry["ios-xcode-release"].buildMode = "release"

\* f and g have the same content at every path of the set
SameOn(f, g, paths) == \A p \in paths : f[p] = g[p]

\* C19: with a wasisdk command and an emsdk command interleaved step by step on
\* one SDK root, no step of the wasisdk command changes a path of the
\* Emscripten SDK or what the emscripten validate answers, no step of the emsdk
\* command changes a path of the WASI SDK or what the wasi validate answers, and
\* the SDK root, once there, stays: it is created if absent and otherwise
\* left alone
C19_Isolation ==
    [][/\ wvars' # wvars =>
             (SameOn(fs', fs, EmsdkPaths) /\ Emsc_validate(fs') = Emsc_validate(fs))
       /\ evars' # evars =>
             (SameOn(fs', fs, WasiPaths) /\ Wasi_validate(fs') = Wasi_validate(fs))
       /\ dirExists(fs, sdkDir) => fs'[sdkDir] = fs[sdkDir]]_vars

\* both installs ran at the same time on an empty root and both succeeded
C19_Witness ==
    /\ wop = "install" /\ wpc = "done" /\ wres = Returned /\ wrename = "done"
    /\ eop = "install" /\ epc = "done" /\ eres = Returned
    /\ ~dirExists(wfs0, sdkDir)
    /\ fileExists(efs0, archiveFile) /\ ~dirExists(efs0, wasisdkDir)
    /\ fs[wasisdkDir] = "full" /\ fs[emsdkActive] = "full"

\* the Builder was given the link options opts for the build mode
HasLink(opts, buildMode) ==
    \E i \in DOMAIN builder.linkOptions : builder.linkOptions[i] = [opts |-> opts, buildMode |-> buildMode]

HasCompile(opts, buildMode) ==
    \E i \in DOMAIN builder.compileOptions :
        builder.compileOptions[i] = [opts |-> opts, buildMode |-> buildMode]

\* the value of a boolean import option, d if the importer left it unset
Opt(name, d) == IF name \in builder.imports.set THEN builder.imports.bool[name] ELSE d

BuiltFor(platform) == builder.build # "none" /\ registry[builder.config].platform = platform

NothingAdded ==
    builder.cmakeIncludes = <<>> /\ builder.compileOptions = <<>> /\ builder.linkOptions = <<>>

\* the link and compile options of the documented defaults: 32 MiB of initial
\* memory, memory growth on, 512 KiB of stack, emmalloc on, filesystem off, LTO
\* and closure on for release builds, minimal shell file on
OptionsAsDocumented ==
    /\ HasLink(<<"-sINITIAL_MEMORY=" \o (IF "initialMemory" \in builder.imports.set
                                         THEN ToString(GivenInitialMemory) ELSE "33554432"),
                 "-sSTACK_SIZE=" \o (IF "stackSize" \in builder.imports.set
                                     THEN ToString(GivenStackSize) ELSE "524288")>>, AnyMode)
    /\ HasLink(<<"-sALLOW_MEMORY_GROWTH=1">>, AnyMode) <=> Opt("allowMemoryGrowth", TRUE)
    /\ HasLink(<<"-sMALLOC='emmalloc'">>, AnyMode) <=> Opt("useEmmalloc", TRUE)
    /\ HasLink(<<"-sNO_FILESYSTEM=1">>, AnyMode) <=> ~Opt("useFilesystem", FALSE)
    /\ HasLink(<<"-flto">>, "release") <=> Opt("useLTO", TRUE)
    /\ HasCompile(<<"-flto">>, "release") <=> Opt("useLTO", TRUE)
    /\ HasLink(<<"--closure 1">>, "release") <=> Opt("useClosure", TRUE)
    /\ HasLink(<<"--shell-file=" \o selfDir \o "/shell.html">>, AnyMode) <=> Opt("useMinimalShellFile", TRUE)
    /\ \A i \in DOMAIN builder.linkOptions :
          builder.linkOptions[i].buildMode = "release" <=>
              builder.linkOptions[i].opts \in {<<"-flto">>, <<"--closure 1">>}

\* C20 as stated: build(builder) of the emscripten plugin adds nothing on
\* another platform, and on emscripten the cmake include once and the link
\* options of the import options with the documented defaults
C20_BuildDefaults ==
    /\ (builder.build # "none" /\ ~BuiltFor("emscripten")) => NothingAdded
    /\ BuiltFor("emscripten") =>
          /\ builder.cmakeIncludes = <<"emscripten.include.cmake">>
          /\ OptionsAsDocumented

\* C20: build(builder) adds nothing when the active configuration's platform
\* is not emscripten; when it is, it adds the cmake include
\* emscripten.include.cmake exactly once and link options from the import
\* options with their documented defaults: in emscripten.ts the one option
\* emscriptenShellFile (default <selfDir>/shell.html) as `--shell-file <file>`
\* and nothing else, in the later plugin the eight options initialMemory,
\* allowMemoryGrowth, stackSize, useEmmalloc, useFilesystem, useLTO, useClosure
\* and useMinimalShellFile
C20_BuildScope ==
    /\ (builder.build # "none" /\ ~BuiltFor("emscripten")) => NothingAdded
    /\ BuiltFor("emscripten") => builder.cmakeIncludes = <<"emscripten.include.cmake">>
    /\ (BuiltFor("emscripten") /\ builder.build = "options") => OptionsAsDocumented
    /\ (BuiltFor("emscripten") /\ builder.build = "shellFile") =>
          /\ builder.compileOptions = <<>>
          /\ builder.linkOptions =
                <<[opts |-> <<"--shell-file " \o (IF "emscriptenShellFile" \in builder.imports.set
                                                  THEN GivenShellFile
                                                  ELSE selfDir \o "/shell.html")>>,
                   buildMode |-> AnyMode]>>

\* a build for emscripten by the later plugin with every option left unset
C20_Witness ==
    /\ BuiltFor("emscripten") /\ builder.build = "options"
    /\ builder.imports.set = {}
    /\ Len(builder.linkOptions) = 7

\* the addConfig calls of the three plugins
AddConfigCalls == Wasi_addConfigs \o Emsc_addConfigs \o Ios_addConfigs

BaseNames == {Wasi_baseConfig.name, Emsc_baseConfig.name, Ios_baseConfig.name}

\* the number of addConfig calls made by the plugins configured so far
CallsSoFar ==
    (IF "wasi" \in configured THEN Len(Wasi_addConfigs) ELSE 0)
      + (IF "emscripten" \in configured THEN Len(Emsc_addConfigs) ELSE 0)
      + (IF "ios" \in configured THEN Len(Ios_addConfigs) ELSE 0)

\* C21: the names the three plugins pass to addConfig are pairwise distinct and
\* none is the name of a base descriptor, so no registration replaces another:
\* the registry resolves as many names as there were addConfig calls
C21_NamesUnique ==
    /\ \A i, j \in DOMAIN AddConfigCalls :
          i # j => AddConfigCalls[i].name # AddConfigCalls[j].name
    /\ \A i \in DOMAIN AddConfigCalls : AddConfigCalls[i].name \notin BaseNames
    /\ DOMAIN registry \cap BaseNames = {}
    /\ Cardinality(DOMAIN registry) = CallsSoFar

C21_Witness ==
    configured = Plugins /\ Cardinality(DOMAIN registry) = Len(AddConfigCalls)

\* the spawn is the file server, rooted at dir and listening on port
IsServer(sp, dir, port) ==
    /\ sp.cmd = "deno"
    /\ \E i \in 1..(Len(sp.options.args) - 1) :
          sp.options.args[i] = FILE_SERVER_URL /\ sp.options.args[i + 1] = dir
    /\ \E i \in 1..(Len(sp.options.args) - 1) :
          sp.options.args[i] = "-p" /\ sp.options.args[i + 1] = port

\* the spawn opens url in the browser
IsOpener(sp, url) ==
    sp.cmd \in {"open", "xdg-open", "cmd"} /\ sp.options.args[Len(sp.options.args)] = url

\* C22: a run by the browser-hosted emscripten runner starts the file server,
\* rooted at the dist directory of the configuration on port 8080, before it
\* opens the browser, and the URL it opens is on that port and names
\* <target>.html
C22_ServerBeforeBrowser ==
    (rpc # "idle" /\ rcall.runner = "emscripten/browser") =>
        /\ IsServer(spawns[1], distDir(rcall.config), "8080")
        /\ \A i \in DOMAIN spawns :
              i > 1 => IsOpener(spawns[i], "http://localhost:8080/" \o rcall.target \o ".html")

\* the version an install run is for: the third argument, `latest` without one
VersionOf(args) == IF Len(args) >= 3 THEN args[3] ELSE "latest"

\* C23: an Emscripten install first makes sure of the SDK root, then either
\* clones (no <sdkRoot>/emsdk at the start) or force-syncs (it was there),
\* exactly one of the two and once; `emsdk install` is started only after that
\* has settled and `emsdk activate` only after `emsdk install` has finished;
\* both are run with the version token of the command line, `latest` if it
\* has none
C23_InstallSequence ==
    eop = "install" =>
        /\ Len(elog) >= 2
        /\ elog[1] = "ensureSdkDir" /\ Count(elog, "ensureSdkDir") = 1
        /\ elog[2] = (IF dirExists(efs0, emsdkDir) THEN "git.update" ELSE "git.clone")
        /\ Count(elog, "git.update") + Count(elog, "git.clone") = 1
        /\ \A i \in DOMAIN elog :
              elog[i] = "emsdk install: start" =>
                  i = 4 /\ elog[3] \in {elog[2] \o ": ok", elog[2] \o ": false"}
        /\ \A i \in DOMAIN elog :
              elog[i] = "emsdk activate: start" =>
                  /\ i = 6 /\ elog[4] = "emsdk install: start"
                  /\ elog[5] \in {"emsdk install: ok", "emsdk install: nonzero"}
        /\ Len(espawns) = Count(elog, "emsdk install: start") + Count(elog, "emsdk activate: start")
        /\ Len(espawns) >= 1 =>
              espawns[1].args = <<"install", "--shallow", "--disable-assertions", VersionOf(eargs)>>
        /\ Len(espawns) >= 2 =>
              espawns[2].args = <<"activate", "--embedded", VersionOf(eargs)>>

C23_Witness ==
    /\ eop = "install" /\ epc = "done" /\ eres = Returned
    /\ eargs = <<"emsdk", "install", "3.1.50">>
    /\ ~dirExists(efs0, emsdkDir)
    /\ Len(espawns) = 2

\* every step of the running wasisdk install has succeeded
WasiAllStepsOk ==
    /\ wop = "install"
    /\ In(wlog, "probe: tar found") /\ In(wlog, "download: ok") /\ In(wlog, "tar: ok")
    /\ In(wlog, "rename: ok") /\ In(wlog, "removeSync: archive")

\* every step of the running emsdk install has succeeded
EmscAllStepsOk ==
    /\ eop = "install"
    /\ (In(elog, "git.clone: ok") \/ In(elog, "git.update: ok"))
    /\ In(elog, "emsdk install: ok") /\ In(elog, "emsdk activate: ok")

\* something of an earlier install was in the SDK root when the command began
WasiLeftovers(f) == f[archiveFile] # "absent" \/ f[extractedDir] # "absent"

\* C24: for both SDKs an uninstall that deleted leaves the normalized directory
\* absent, whatever an aborted install had left; an install that begins with it
\* absent is not rejected as already installed, and when each of its steps
\* succeeds it returns with the SDK installed in full, whatever leftovers of an
\* aborted install are in the SDK root
C24_Recovery ==
    /\ (wop = "uninstall" /\ wpc = "done" /\ Did(wlog) = "deleted") => ~dirExists(fs, wasisdkDir)
    /\ (eop = "uninstall" /\ epc = "done" /\ Did(elog) = "deleted") =>
          \A p \in EmsdkPaths : fs[p] = "absent"
    /\ (wop = "install" /\ ~dirExists(wfs0, wasisdkDir)) => wres # Thrown(AlreadyInstalledMsg)
    /\ (WasiAllStepsOk /\ ~dirExists(wfs0, wasisdkDir)) =>
          (wres = Returned /\ fs[wasisdkDir] = "full")
    /\ (EmscAllStepsOk /\ ~dirExists(efs0, emsdkDir)) =>
          (eres = Returned /\ \A p \in EmsdkPaths : fs[p] = "full")

\* an install that succeeded right after an uninstall that deleted what an
\* aborted install had made, with leftovers of that install still in the root
C24_Witness ==
    /\ prev = [cmd |-> "wasisdk", did |-> "deleted"]
    /\ WasiAllStepsOk /\ wpc = "done"
    /\ ~dirExists(wfs0, wasisdkDir) /\ WasiLeftovers(wfs0)

ReleaseFlags == {<<"-flto">>, <<"--closure 1">>}

\* the options of a list that take effect in a build of the given mode
Effective(options, buildMode) ==
    {options[i].opts : i \in {k \in DOMAIN options : options[k].buildMode \in {AnyMode, buildMode}}}

\* C25: build() adds `-flto` (compile and link) and `--closure 1` (link) only
\* for build mode release and only when useLTO resp. useClosure is on, so that
\* in a debug build they have no effect; the memory, stack, allocator,
\* filesystem and shell-file link options are added for every build mode
C25_ReleaseOnlyFlags ==
    builder.build # "none" =>
        /\ \A i \in DOMAIN builder.linkOptions :
              IF builder.linkOptions[i].opts \in ReleaseFlags
              THEN builder.linkOptions[i].buildMode = "release"
              ELSE builder.linkOptions[i].buildMode = AnyMode
        /\ \A i \in DOMAIN builder.compileOptions :
              builder.compileOptions[i] = [opts |-> <<"-flto">>, buildMode |-> "release"]
        /\ (HasLink(<<"-flto">>, "release") \/ builder.compileOptions # <<>>) => Opt("useLTO", TRUE)
        /\ HasLink(<<"--closure 1">>, "release") => Opt("useClosure", TRUE)
        /\ Effective(builder.linkOptions, "debug") \cap ReleaseFlags = {}
        /\ Effective(builder.compileOptions, "debug") = {}

\* a debug build for emscripten with LTO and closure asked for
C25_Witness ==
    /\ BuiltFor("emscripten") /\ builder.build = "options"
    /\ registry[builder.config].buildMode = "debug"
    /\ {"useLTO", "useClosure"} \subseteq builder.imports.set
    /\ builder.imports.bool["useLTO"] /\ builder.imports.bool["useClosure"]
    /\ HasLink(<<"-flto">>, "release") /\ HasLink(<<"--closure 1">>, "release")

\* C26: the emsc-* configurations validate as valid only if the most recent
\* install ran to completion (clone or sync, `emsdk install` and
\* `emsdk activate` all succeeded); after an install that stopped short of
\* that, validate reports the SDK as not installed
C26_ValidImpliesCompleted ==
    (eop = "install" /\ epc = "done" /\ ~EmscAllStepsOk) => ~Emsc_validate(fs).valid

\* C27: <sdkRoot>/wasisdk exists only if a download and a tar extraction both
\* succeeded in the install that created it, and no partly extracted SDK
\* makes the wasi-* configurations validate as valid
C27_CommitPoint ==
    /\ (wop = "install" /\ ~dirExists(wfs0, wasisdkDir) /\ dirExists(fs, wasisdkDir))
          => (In(wlog, "download: ok") /\ In(wlog, "tar: ok"))
    /\ Wasi_validate(fs).valid => fs[wasisdkDir] = "full"

GridPrefix == [wasi |-> "wasi", emscripten |-> "emsc"]
GridVariants == {"make", "ninja", "vscode"}
GridModes == {"debug", "release"}
GridName(p, v, m) == p \o "-" \o v \o "-" \o m

\* C28: once the wasi and the emscripten plugin are configured, the
\* configurations of their platforms are exactly the twelve named
\* `p-v-m` for p in {wasi, emsc}, v in {make, ninja, vscode} and m in
\* {debug, release}, each with buildMode m, generator make for v = make and
\* ninja otherwise, and opener vscode exactly when v = vscode
C28_VariantGrid ==
    {"wasi", "emscripten"} \subseteq configured =>
        /\ {n \in DOMAIN registry : registry[n].platform \in DOMAIN GridPrefix}
              = {GridName(GridPrefix[pl], v, m) : pl \in DOMAIN GridPrefix, v \in GridVariants, m \in GridModes}
        /\ \A pl \in DOMAIN GridPrefix, v \in GridVariants, m \in GridModes :
              LET n == GridName(GridPrefix[pl], v, m)
              IN  n \in DOMAIN registry =>
                     /\ registry[n].platform = pl
                     /\ registry[n].buildMode = m
                     /\ registry[n].generator = IF v = "make" THEN "make" ELSE "ninja"
                     /\ ("opener" \in DOMAIN registry[n] /\ registry[n].opener = "vscode") <=> (v = "vscode")

\* C29: an emsdk command line whose subcommand is `install`, whatever its
\* version token (none, `latest`, a version, the empty string), either invokes
\* install with that version (`latest` without one) or ends in an error; it
\* never returns successfully without having invoked install
C29_InstallNeverSkipped ==
    (epc # "idle" /\ Token(eargs) = "install") =>
        \/ eop = "install" /\ eversion = VersionOf(eargs) /\ In(elog, "ensureSdkDir")
        \/ epc = "done" /\ eres.kind = "error"

EmsdkOps == {"install", "activate", "list"}

\* C30: every run of the embedded emsdk tool (install, activate, list) is
\* preceded by the test that <sdkRoot>/emsdk/emsdk exists.  Without the file
\* the operation ends with the fatal error that hints at 'fibs emsdk install'
\* and nothing is spawned; with it the tool is spawned once per invocation,
\* by its path in the SDK directory and with the SDK directory as working
\* directory
C30_ToolGating ==
    /\ Len(espawns) = Count(elog, "emsdk install: start") + Count(elog, "emsdk activate: start")
                         + Count(elog, "emsdk list: start")
    /\ \A i \in DOMAIN espawns :
          /\ espawns[i].cmd = emsdkCmd /\ espawns[i].cwd = emsdkDir
          /\ espawns[i].args[1] \in EmsdkOps
          /\ Count(elog, "emsdk " \o espawns[i].args[1] \o ": start") = 1
          /\ fileExists(fs, emsdkCmd)
          /\ \A j \in DOMAIN espawns : espawns[j].args[1] = espawns[i].args[1] => j = i
    /\ eres = Thrown(EmsdkToolMissingMsg) =>
          epc = "done" /\ ~fileExists(fs, emsdkCmd) /\ espawns = <<>>
    /\ (eop = "list" /\ epc # "idle") =>
          IF fileExists(efs0, emsdkCmd)
          THEN espawns = <<[cmd |-> emsdkCmd, args |-> <<"list">>, cwd |-> emsdkDir]>>
          ELSE eres = Thrown(EmsdkToolMissingMsg) /\ espawns = <<>> /\ fs = efs0
    /\ (eop = "install" /\ Len(elog) >= 3 /\ elog[3] # elog[2] \o ": throw") =>
          IF fileExists(fs, emsdkCmd)
          THEN Len(espawns) >= 1 /\ espawns[1].args[1] = "install"
          ELSE eres = Thrown(EmsdkToolMissingMsg)

\* `emsdk list` without an installed SDK
C30_Witness ==
    /\ eop = "list" /\ epc = "done" /\ ~dirExists(efs0, emsdkDir)
    /\ eres = Thrown(EmsdkToolMissingMsg) /\ espawns = <<>>

====
